---- MODULE Spec2Model ----
(***************************************************************************)
(* Model of the portfolio front-end script bundle:                         *)
(*   src/js/3d-portfolio.js  device tiering, throttled rAF loops, matrix   *)
(*                           rain, neural-network particle field, glitch   *)
(*                           text, navbar, staged start-up                 *)
(*   src/unnamed/part_001    ambient particle background and page wiring   *)
(*                                                                         *)
(* Numbers that are fractional in the source are kept in fixed point:      *)
(*   lengths and velocities in 1/PosScale pixel, time in 1/TimeScale ms,   *)
(*   device memory in 1/MemUnit GB.  Every floating-point operation of the *)
(*   source rounds to the nearest representable value, and so does the     *)
(*   fixed-point operation that models it (RoundDiv, Hypot).               *)
(***************************************************************************)
EXTENDS Integers, Sequences, FiniteSets, TLC

VARIABLES
  host,          \* what the browser reports: cores, memory, reduced motion, features
  win,           \* window.innerWidth / window.innerHeight, in pixels
  dom,           \* the DOM anchors present in the page
  moduleLoaded,  \* 3d-portfolio.js has been evaluated (Device is initialised)
  Device,        \* the capability profile of 3d-portfolio.js
  now,           \* timestamp handed to the animation-frame callbacks (1/TimeScale ms)
  prevNow,       \* timestamp of the previous native tick
  ticks,         \* native ticks since the schedules were registered
  rafQueue,      \* the throttled loops waiting for the next animation frame, in order
  tickLog,       \* owners whose callback fn ran during the last native tick, in order
  nn,            \* NeuralNetwork instance: active, canvas, nodes, mouse
  nnFrame,       \* what the last NeuralNetwork.draw rendered
  resizeTimer,   \* NeuralNetwork's debounce timer is pending
  matrix,        \* MatrixRain instance: active, canvas, fontSize, cols, drops
  ambient,       \* part_001 particle background: canvas, particles
  ambientFrame,  \* what the last animateParticles rendered
  pointer,       \* where the user's pointer is: "none", "mouse" or "touch"
  rng,           \* Math.random(): the stream in use and how many values were drawn
  frames,        \* frames drawn so far (both particle fields)
  resizes,       \* viewport resize events so far
  clock,         \* milliseconds since the page started loading
  domReady,      \* the DOMContentLoaded handler has run
  timers,        \* pending setTimeout callbacks of the start-up: [id, due]
  idleRequested, \* a requestIdleCallback callback is pending
  constructed,   \* the drivers constructed so far, in order
  intervals,     \* owners of the running setInterval handles
  hidden,        \* anchors whose style.display was set to 'none'
  errors,        \* uncaught exceptions so far: [site, cause]
  mainScript,    \* part_001: "pending", "done" or "aborted", and the effects it started
  navTicking,    \* Navbar.ticking
  navFrame,      \* Navbar's animation-frame callback is queued
  glitch,        \* GlitchText: original, target text, glitching, iter, running scrambles
  typer,         \* TypeWriter: idx, c, del and the text shown
  menu           \* Navbar: toggle 'active', menu 'open', body overflow

hostVars == <<host, win, dom, moduleLoaded, Device>>

rafVars == <<now, prevNow, ticks, rafQueue, tickLog>>

fieldVars == <<nn, nnFrame, resizeTimer, matrix, ambient, ambientFrame, pointer, rng, frames, resizes>>

loadVars == <<clock, domReady, timers, idleRequested, constructed, intervals, hidden, errors,
              mainScript, navTicking, navFrame>>

uiVars == <<glitch, typer, menu>>

vars == <<hostVars, rafVars, fieldVars, loadVars, uiVars>>

----------------------------------------------------------------------------
(* Bounds of the model *)

MaxCores == 8          \* navigator.hardwareConcurrency ranges over 0..MaxCores
MaxMemExp == 5         \* navigator.deviceMemory ranges over 0.25 * 2^k GB, k <= MaxMemExp

MaxTicks == 5          \* native ticks followed after registration

MaxFrames == 2         \* frames drawn by the particle fields
MaxRepelFrames == 5    \* frames drawn while following the repulsion of a few nodes
MaxGlitches == 2       \* scrambles of the glitch text that are followed
MaxClock == 600        \* the start-up is followed for this many milliseconds
MaxResizes == 1        \* viewport resize events
MaxSeed == 0           \* Math.random() follows one of the streams 0..MaxSeed
RandDen == 16          \* Math.random() returns k / RandDen, k in 0..RandDen-1

(* Fixed-point units *)
PosScale == 100        \* lengths and velocities are counted in 1/PosScale pixel
MemUnit == 4           \* device memory is counted in quarter gigabytes

\* the throttle frequencies the drivers ask for
TargetRates == {24, 30, 60}

\* time unit: the coarsest fraction of a millisecond in which every 1000/targetFPS is whole
TimeScale == CHOOSE s \in 1..10 :
  /\ \A f \in TargetRates : (1000 * s) % f = 0
  /\ \A r \in 1..(s - 1) : \E f \in TargetRates : (1000 * r) % f # 0

----------------------------------------------------------------------------
(* Arithmetic helpers *)

Abs(a) == IF a < 0 THEN -a ELSE a

Min(a, b) == IF a < b THEN a ELSE b

Max(a, b) == IF a > b THEN a ELSE b

RECURSIVE Pow2(_)
Pow2(k) == IF k = 0 THEN 1 ELSE 2 * Pow2(k - 1)

----------------------------------------------------------------------------
(* Host environment *)

\* 0 stands for "the host does not report the value" (undefined is falsy in `x || d`)
CoreValues == 0..MaxCores

MemValues == {0} \cup {Pow2(k) : k \in 0..MaxMemExp}

\* viewports the page is opened in (pixels)
Viewports ==
  { [w |-> 1440, h |-> 900], [w |-> 1024, h |-> 768], [w |-> 767, h |-> 500],
    [w |-> 300, h |-> 200] }

\* viewports the window is resized to
ResizeTargets == { [w |-> 1024, h |-> 768], [w |-> 300, h |-> 200] }

Hosts ==
  [ hardwareConcurrency : CoreValues, deviceMemory : MemValues,
    reducedMotion : BOOLEAN, hasRIC : BOOLEAN, hasIO : BOOLEAN ]

----------------------------------------------------------------------------
(* DEVICE CAPABILITY DETECTOR *)

DeviceUnset ==
  [ isLow |-> FALSE, isMid |-> FALSE, isHigh |-> FALSE, mobile |-> FALSE,
    reduced |-> FALSE, cores |-> 0, mem |-> 0 ]

DetectDeviceOffByOne(h, w) ==
  LET cores == IF h.hardwareConcurrency # 0 THEN h.hardwareConcurrency ELSE 2
      mem == IF h.deviceMemory # 0 THEN h.deviceMemory ELSE 1 * MemUnit
      mobile == w.w < 768
      reduced == h.reducedMotion
      isLow == reduced \/ cores < 2 \/ mem < 2 * MemUnit \/ (mobile /\ cores <= 4)
      isMid == ~isLow /\ (cores <= 4 \/ mem < 4 * MemUnit \/ mobile)
      isHigh == ~isLow /\ ~isMid
  IN [ isLow |-> isLow, isMid |-> isMid, isHigh |-> isHigh, mobile |-> mobile,
       reduced |-> reduced, cores |-> cores, mem |-> mem ]

DetectDevice(h, w) ==
  LET cores == IF h.hardwareConcurrency # 0 THEN h.hardwareConcurrency ELSE 2
      mem == IF h.deviceMemory # 0 THEN h.deviceMemory ELSE 1 * MemUnit
      mobile == w.w < 768
      reduced == h.reducedMotion
      isLow == reduced \/ cores <= 2 \/ mem < 2 * MemUnit \/ (mobile /\ cores <= 4)
      isMid == ~isLow /\ (cores <= 4 \/ mem < 4 * MemUnit \/ mobile)
      isHigh == ~isLow /\ ~isMid
  IN [ isLow |-> isLow, isMid |-> isMid, isHigh |-> isHigh, mobile |-> mobile,
       reduced |-> reduced, cores |-> cores, mem |-> mem ]

\* evaluation of the script: the Device IIFE runs once
ModuleLoad ==
  /\ ~moduleLoaded
  /\ moduleLoaded' = TRUE
  /\ Device' = DetectDevice(host, win)
  /\ UNCHANGED <<host, win, dom, rafVars, fieldVars, loadVars, uiVars>>

----------------------------------------------------------------------------
(* FPS THROTTLE HELPER *)

\* createThrottledRAF(fn, targetFPS): `last` starts at 0, the loop is queued
\* (fires, prevFire record the invocations of fn for the properties below)
NewSchedule(owner, targetFPS) ==
  [ owner |-> owner, fps |-> targetFPS, last |-> 0, prevFire |-> 0, fires |-> 0 ]

\* now - last >= interval, with interval = 1000 / targetFPS
LoopDueStrict(s, t) == (t - s.last) * s.fps > 1000 * TimeScale

LoopDueAlways(s, t) == t - s.last >= 0

LoopDue(s, t) == (t - s.last) * s.fps >= 1000 * TimeScale

\* one run of loop(now): the record the loop re-registers
Loop(s, t) ==
  IF LoopDue(s, t)
  THEN [s EXCEPT !.last = t, !.prevFire = s.last, !.fires = s.fires + 1]
  ELSE s

\* requestAnimationFrame(loop) inside loop: the callback joins the end of the
\* list of the next frame
RequeueFront(requeued, s, t) == <<Loop(s, t)>> \o requeued

Requeue(requeued, s, t) == Append(requeued, Loop(s, t))

\* the host runs the queued callbacks in order; each one re-registers itself
RECURSIVE RunFrame(_, _, _, _)
RunFrame(queue, t, requeued, log) ==
  IF queue = <<>> THEN [queue |-> requeued, log |-> log]
  ELSE LET s == Head(queue)
       IN RunFrame(Tail(queue), t, Requeue(requeued, s, t),
                   IF LoopDue(s, t) THEN Append(log, s.owner) ELSE log)

\* native tick rates of the display (Hz); a gap of 0 is two ticks with one timestamp
TickRates == {20, 24, 30, 60, 120}

TickGaps == {0} \cup {(1000 * TimeScale) \div hz : hz \in TickRates}

Tick(gap) ==
  /\ ticks < MaxTicks
  /\ now' = now + gap
  /\ prevNow' = now
  /\ ticks' = ticks + 1
  /\ LET r == RunFrame(rafQueue, now + gap, <<>>, <<>>)
     IN /\ rafQueue' = r.queue
        /\ tickLog' = r.log
  /\ UNCHANGED <<hostVars, fieldVars, loadVars, uiVars>>

\* frequencies the two canvas drivers register (constructors of MatrixRain, NeuralNetwork)
MatrixRainSchedules(dev, d) ==
  IF dev.isLow \/ "matrix-canvas" \notin d THEN <<>>
  ELSE <<NewSchedule("MatrixRain", IF dev.isMid THEN 24 ELSE 30)>>

NeuralNetworkSchedules(dev, d) ==
  IF dev.isLow \/ "neural-canvas" \notin d THEN <<>>
  ELSE <<NewSchedule("NeuralNetwork", IF dev.isMid THEN 30 ELSE 60)>>

\* the deferred start-up phase runs 200ms after DOMContentLoaded
DeferDelay == 200

\* hosts of each kind: low (2 cores), mid (4 cores), high (8 cores, 8GB)
TierHosts ==
  { h \in Hosts : /\ h.hardwareConcurrency \in {2, 4, 8}
                  /\ h.deviceMemory = 8 * MemUnit
                  /\ ~h.reducedMotion /\ h.hasRIC /\ h.hasIO }


----------------------------------------------------------------------------
(* Fixed-point arithmetic and Math.random *)

Sign(a) == IF a < 0 THEN -1 ELSE 1

\* a / b rounded to the nearest integer (b > 0), as every floating-point
\* operation rounds its exact result to the nearest representable value
RoundDiv(a, b) == Sign(a) * ((2 * Abs(a) + b) \div (2 * b))

\* floor of the square root of q > 0, by Newton's iteration from x >= sqrt(q)
RECURSIVE IsqrtFrom(_, _)
IsqrtFrom(q, x) ==
  LET y == (x + q \div x) \div 2
  IN IF y >= x THEN x ELSE IsqrtFrom(q, y)

\* the square root of a * a + b * b rounded to the nearest unit (a, b >= 0)
SqrtSumSq(a, b) ==
  LET q == a * a + b * b
      r == IF q = 0 THEN 0 ELSE IsqrtFrom(q, a + b)
  IN IF q > r * r + r THEN r + 1 ELSE r

\* operands from which Hypot saturates (their squares would not fit 32 bits);
\* 320px is beyond every radius and threshold the source compares a distance to
HypotMax == 320 * PosScale

\* Math.hypot(dx, dy); from HypotMax on, the larger operand (a lower bound of
\* the distance that is above every threshold) stands for the result
Hypot(dx, dy) ==
  IF Abs(dx) >= HypotMax \/ Abs(dy) >= HypotMax
  THEN Max(Abs(dx), Abs(dy))
  ELSE SqrtSumSq(Abs(dx), Abs(dy))

Seeds == 0..MaxSeed

\* the k-th value of Math.random() after r.n earlier ones in stream r.seed,
\* as a numerator over RandDen
Rand(r, k) ==
  LET j == r.n + k
  IN (7 * j + 3 * r.seed * (j + 1) + (j \div 3)) % RandDen

\* Math.random() * range, for a range given in fixed-point units
RandTimes(r, k, range) == (Rand(r, k) * range) \div RandDen

\* (Math.random() - 0.5) * c, for c given in hundredths of a pixel
RandCentred(r, k, cHundredths) ==
  RoundDiv((2 * Rand(r, k) - RandDen) * cHundredths * PosScale, 2 * RandDen * 100)

\* the stream after `calls` more values were drawn
Drawn(r, calls) == [r EXCEPT !.n = r.n + calls]

----------------------------------------------------------------------------
(* NEURAL NETWORK *)

\* this.mouse = { x: -9999, y: -9999 }
Sentinel == [x |-> -9999, y |-> -9999]

NoNN == [active |-> FALSE, canvas |-> [w |-> 0, h |-> 0], nodes |-> <<>>, mouse |-> Sentinel]

NoFrame ==
  [ pos |-> <<>>, lines |-> <<>>, mouseLines |-> <<>>, impulses |-> {}, clamped |-> {},
    moved |-> <<>>, mouse |-> Sentinel, push |-> <<>>, capped |-> <<>>, vel |-> <<>>,
    canvas |-> [w |-> 0, h |-> 0] ]

\* count of spawnNodes
SpawnCountUncapped(dev, w) ==
  (w.w * w.h) \div (IF dev.isMid THEN 28000 ELSE 12000)

SpawnCount(dev, w) ==
  Min((w.w * w.h) \div (IF dev.isMid THEN 28000 ELSE 12000), IF dev.isMid THEN 40 ELSE 90)

\* spawnNodes(): each node takes seven values of Math.random(), the first four
\* for x, y, vx, vy (r, pulse and color only style the dot)
SpawnNodes(dev, w, canvas, seed) ==
  [ i \in 1..SpawnCount(dev, w) |->
      [ x |-> RandTimes(seed, 7 * (i - 1), canvas.w * PosScale),
        y |-> RandTimes(seed, 7 * (i - 1) + 1, canvas.h * PosScale),
        vx |-> RandCentred(seed, 7 * (i - 1) + 2, IF dev.isMid THEN 25 ELSE 35),
        vy |-> RandCentred(seed, 7 * (i - 1) + 3, IF dev.isMid THEN 25 ELSE 35) ] ]

\* constructor: resize(), spawnNodes(), bindEvents() unless low-end or no canvas
NNConstruct(dev, d, w, seed) ==
  IF dev.isLow \/ "neural-canvas" \notin d THEN NoNN
  ELSE [ active |-> TRUE, canvas |-> w, nodes |-> SpawnNodes(dev, w, w, seed),
         mouse |-> Sentinel ]

MaxDist(dev) == (IF dev.isMid THEN 100 ELSE 120) * PosScale

MouseInf(dev) == (IF dev.isMid THEN 120 ELSE 160) * PosScale

\* the speed cap 1.4
SpeedCap == RoundDiv(14 * PosScale, 10)

\* distance of a node from the tracked pointer
MouseDist(n, m) == Hypot(n.x - m.x * PosScale, n.y - m.y * PosScale)

\* if (md < mouseInf && md > 0)
Repelled(md, dev) == md < MouseInf(dev) /\ md > 0

\* if (speed > 1.4) { n.vx *= 1.4 / speed; n.vy *= 1.4 / speed; }
ClampSpeedNever(v) == v

ClampSpeed(v) ==
  LET speed == Hypot(v.vx, v.vy)
  IN IF speed > SpeedCap
     THEN [vx |-> RoundDiv(v.vx * SpeedCap, speed), vy |-> RoundDiv(v.vy * SpeedCap, speed)]
     ELSE v

\* "Mouse repulsion": the velocity of a node that moved to (x1, y1)
PushedTowards(n, x1, y1, m, dev) ==
  LET mdx == x1 - m.x * PosScale
      mdy == y1 - m.y * PosScale
      md == Hypot(mdx, mdy)
      force == RoundDiv((MouseInf(dev) - md) * 7 * PosScale, MouseInf(dev) * 10)
  IN IF Repelled(md, dev)
     THEN [vx |-> n.vx - RoundDiv(mdx * force, md), vy |-> n.vy - RoundDiv(mdy * force, md)]
     ELSE [vx |-> n.vx, vy |-> n.vy]

Pushed(n, x1, y1, m, dev) ==
  LET mdx == x1 - m.x * PosScale
      mdy == y1 - m.y * PosScale
      md == Hypot(mdx, mdy)
      force == RoundDiv((MouseInf(dev) - md) * 7 * PosScale, MouseInf(dev) * 10)
  IN IF Repelled(md, dev)
     THEN [vx |-> n.vx + RoundDiv(mdx * force, md), vy |-> n.vy + RoundDiv(mdy * force, md)]
     ELSE [vx |-> n.vx, vy |-> n.vy]

\* the body of the first loop of draw() for one node
DrawNode(n, m, canvas, dev) ==
  LET x1 == n.x + n.vx
      y1 == n.y + n.vy
      capped == ClampSpeed(Pushed(n, x1, y1, m, dev))
      cw == canvas.w * PosScale
      ch == canvas.h * PosScale
  IN [ x |-> Max(0, Min(cw, x1)),
       y |-> Max(0, Min(ch, y1)),
       vx |-> IF x1 < 0 \/ x1 > cw THEN -capped.vx ELSE capped.vx,
       vy |-> IF y1 < 0 \/ y1 > ch THEN -capped.vy ELSE capped.vy ]

\* for (let j = i + 1; ...)
FirstPartnerSelf(i) == i

FirstPartner(i) == i + 1

\* the inner loop of "Draw connections" for node i: the pairs that get a line
NNRowLines(pos, i, dev) ==
  SelectSeq([k \in 1..(Len(pos) + 1 - FirstPartner(i)) |-> <<i, FirstPartner(i) + k - 1>>],
            LAMBDA pr : Hypot(pos[pr[1]].x - pos[pr[2]].x, pos[pr[1]].y - pos[pr[2]].y)
                          < MaxDist(dev))

\* the outer loop: rows i = from .. length, in order
RECURSIVE NNConnections(_, _, _)
NNConnections(pos, from, dev) ==
  IF from > Len(pos) THEN <<>>
  ELSE NNRowLines(pos, from, dev) \o NNConnections(pos, from + 1, dev)

\* "Mouse lines - high-end only": the nodes joined to the pointer
NNMouseLines(pos, m, dev) ==
  IF dev.isHigh
  THEN SelectSeq([i \in 1..Len(pos) |-> i], LAMBDA i : MouseDist(pos[i], m) < MouseInf(dev))
  ELSE <<>>

\* one NeuralNetwork.draw(), run by its throttled loop
NNDrawWithin(limit) ==
  /\ nn.active
  /\ frames < limit
  /\ LET moved == [i \in 1..Len(nn.nodes) |->
                    [x |-> nn.nodes[i].x + nn.nodes[i].vx, y |-> nn.nodes[i].y + nn.nodes[i].vy]]
         drawn == [i \in 1..Len(nn.nodes) |-> DrawNode(nn.nodes[i], nn.mouse, nn.canvas, Device)]
     IN /\ nn' = [nn EXCEPT !.nodes = drawn]
        /\ nnFrame' = [ pos |-> [i \in 1..Len(drawn) |-> [x |-> drawn[i].x, y |-> drawn[i].y]],
                        lines |-> NNConnections(drawn, 1, Device),
                        mouseLines |-> NNMouseLines(drawn, nn.mouse, Device),
                        impulses |-> {i \in 1..Len(moved) :
                                        Repelled(MouseDist(moved[i], nn.mouse), Device)},
                        clamped |-> {i \in 1..Len(moved) :
                           LET v == Pushed(nn.nodes[i], moved[i].x, moved[i].y, nn.mouse, Device)
                           IN Hypot(v.vx, v.vy) > SpeedCap},
                        moved |-> moved,
                        mouse |-> nn.mouse,
                        push |-> [i \in 1..Len(moved) |->
                           LET v == Pushed(nn.nodes[i], moved[i].x, moved[i].y, nn.mouse, Device)
                           IN [dx |-> v.vx - nn.nodes[i].vx, dy |-> v.vy - nn.nodes[i].vy]],
                        capped |-> [i \in 1..Len(moved) |->
                           ClampSpeed(Pushed(nn.nodes[i], moved[i].x, moved[i].y,
                                             nn.mouse, Device))],
                        vel |-> [i \in 1..Len(drawn) |-> [vx |-> drawn[i].vx, vy |-> drawn[i].vy]],
                        canvas |-> nn.canvas ]
  /\ frames' = frames + 1
  /\ UNCHANGED <<hostVars, rafVars, loadVars, resizeTimer, matrix, ambient, ambientFrame, pointer, rng, resizes,
                 uiVars>>

NNDraw == NNDrawWithin(MaxFrames)

\* positions the pointer visits (clientX, clientY in pixels)
PointerPositions == {[x |-> 600, y |-> 200]}

\* mousemove: the listener exists on non-mobile devices only
MouseMoveAlways(p) ==
  /\ pointer \in {"none", "mouse"}
  /\ pointer' = "mouse"
  /\ nn' = IF nn.active THEN [nn EXCEPT !.mouse = p] ELSE nn
  /\ UNCHANGED <<hostVars, rafVars, loadVars, nnFrame, resizeTimer, matrix, ambient, ambientFrame, rng, frames, resizes,
                 uiVars>>

MouseMove(p) ==
  /\ pointer \in {"none", "mouse"}
  /\ pointer' = "mouse"
  /\ nn' = IF nn.active /\ ~Device.mobile THEN [nn EXCEPT !.mouse = p] ELSE nn
  /\ UNCHANGED <<hostVars, rafVars, loadVars, nnFrame, resizeTimer, matrix, ambient, ambientFrame, rng, frames, resizes,
                 uiVars>>

\* the mouse leaves the window
MouseLeave ==
  /\ pointer = "mouse"
  /\ pointer' = "none"
  /\ nn' = IF nn.active /\ ~Device.mobile THEN [nn EXCEPT !.mouse = Sentinel] ELSE nn
  /\ UNCHANGED <<hostVars, rafVars, loadVars, nnFrame, resizeTimer, matrix, ambient, ambientFrame, rng, frames, resizes,
                 uiVars>>

\* touchmove: the listener exists on mobile devices only
TouchMove(p) ==
  /\ pointer \in {"none", "touch"}
  /\ pointer' = "touch"
  /\ nn' = IF nn.active /\ Device.mobile THEN [nn EXCEPT !.mouse = p] ELSE nn
  /\ UNCHANGED <<hostVars, rafVars, loadVars, nnFrame, resizeTimer, matrix, ambient, ambientFrame, rng, frames, resizes,
                 uiVars>>

\* the finger is lifted (touchend / touchcancel): no listener is registered
TouchEnd ==
  /\ pointer = "touch"
  /\ pointer' = "none"
  /\ UNCHANGED <<hostVars, rafVars, loadVars, nn, nnFrame, resizeTimer, matrix, ambient, ambientFrame, rng, frames, resizes,
                 uiVars>>

----------------------------------------------------------------------------
(* MATRIX RAIN *)

NoMatrix == [active |-> FALSE, canvas |-> [w |-> 0, h |-> 0], fontSize |-> 0, cols |-> 0, drops |-> <<>>]

\* resize(): canvas size, cols, and a fresh drops array (Math.random() * -100)
MatrixResize(m, w, seed) ==
  LET cols == w.w \div m.fontSize
  IN [m EXCEPT !.canvas = w, !.cols = cols,
               !.drops = [i \in 1..cols |-> -RandTimes(seed, i - 1, 100 * PosScale)]]

MatrixConstruct(dev, d, w, seed) ==
  IF dev.isLow \/ "matrix-canvas" \notin d THEN NoMatrix
  ELSE MatrixResize([NoMatrix EXCEPT !.active = TRUE, !.fontSize = IF dev.mobile THEN 11 ELSE 13],
                    w, seed)

----------------------------------------------------------------------------
(* PARTICLE BACKGROUND (part_001) *)

\* Particle.reset(): six values of Math.random(), for x, y, size, speedX, speedY, opacity
NewParticle(canvas, seed, i) ==
  [ x |-> RandTimes(seed, 6 * (i - 1), canvas.w * PosScale),
    y |-> RandTimes(seed, 6 * (i - 1) + 1, canvas.h * PosScale),
    speedX |-> RandCentred(seed, 6 * (i - 1) + 3, 30),
    speedY |-> RandCentred(seed, 6 * (i - 1) + 4, 30) ]

\* initParticles(): resizeCanvas(), then count particles
InitParticles(w, seed) ==
  [ canvas |-> w,
    particles |-> [i \in 1..Min((w.w * w.h) \div 15000, 80) |-> NewParticle(w, seed, i)] ]

NoAmbientFrame ==
  [pos |-> <<>>, lines |-> <<>>, before |-> <<>>, after |-> <<>>, canvas |-> [w |-> 0, h |-> 0]]

\* Particle.update()
ParticleUpdate(p, canvas) ==
  LET x1 == p.x + p.speedX
      y1 == p.y + p.speedY
  IN [ x |-> x1, y |-> y1,
       speedX |-> IF x1 < 0 \/ x1 > canvas.w * PosScale THEN -p.speedX ELSE p.speedX,
       speedY |-> IF y1 < 0 \/ y1 > canvas.h * PosScale THEN -p.speedY ELSE p.speedY ]

\* if (dist < 150)
ConnectThreshold == 150 * PosScale

\* the inner loop of connectParticles for particle i
ParticleRowLines(ps, i) ==
  SelectSeq([k \in 1..(Len(ps) - i) |-> <<i, i + k>>],
            LAMBDA pr : Hypot(ps[pr[1]].x - ps[pr[2]].x, ps[pr[1]].y - ps[pr[2]].y)
                          < ConnectThreshold)

RECURSIVE ConnectParticles(_, _)
ConnectParticles(ps, from) ==
  IF from > Len(ps) THEN <<>>
  ELSE ParticleRowLines(ps, from) \o ConnectParticles(ps, from + 1)

\* animateParticles(): update and draw every particle, then connect them
AnimateParticles ==
  /\ frames < MaxFrames
  /\ LET ps == [i \in 1..Len(ambient.particles) |->
                 ParticleUpdate(ambient.particles[i], ambient.canvas)]
     IN /\ ambient' = [ambient EXCEPT !.particles = ps]
        /\ ambientFrame' = [ pos |-> [i \in 1..Len(ps) |-> [x |-> ps[i].x, y |-> ps[i].y]],
                             lines |-> ConnectParticles(ps, 1),
                             before |-> [i \in 1..Len(ps) |->
                                [speedX |-> ambient.particles[i].speedX,
                                 speedY |-> ambient.particles[i].speedY]],
                             after |-> [i \in 1..Len(ps) |->
                                [speedX |-> ps[i].speedX, speedY |-> ps[i].speedY]],
                             canvas |-> ambient.canvas ]
  /\ frames' = frames + 1
  /\ UNCHANGED <<hostVars, rafVars, loadVars, nn, nnFrame, resizeTimer, matrix, pointer, rng, resizes,
                 uiVars>>

----------------------------------------------------------------------------
(* Viewport resize *)

\* a resize event runs the three listeners: MatrixRain.resize(), the
\* NeuralNetwork debounce (clearTimeout, setTimeout 300) and resizeCanvas()
ResizeRetiering(w) ==
  /\ resizes < MaxResizes
  /\ resizes' = resizes + 1
  /\ win' = w
  /\ Device' = DetectDevice(host, w)
  /\ matrix' = IF matrix.active THEN MatrixResize(matrix, w, rng) ELSE matrix
  /\ rng' = IF matrix.active THEN Drawn(rng, w.w \div matrix.fontSize) ELSE rng
  /\ resizeTimer' = nn.active
  /\ ambient' = [ambient EXCEPT !.canvas = w]
  /\ UNCHANGED <<host, dom, moduleLoaded, rafVars, loadVars, nn, nnFrame, ambientFrame, pointer, frames,
                 uiVars>>

Resize(w) ==
  /\ resizes < MaxResizes
  /\ resizes' = resizes + 1
  /\ win' = w
  /\ matrix' = IF matrix.active THEN MatrixResize(matrix, w, rng) ELSE matrix
  /\ rng' = IF matrix.active THEN Drawn(rng, w.w \div matrix.fontSize) ELSE rng
  /\ resizeTimer' = nn.active
  /\ ambient' = [ambient EXCEPT !.canvas = w]
  /\ UNCHANGED <<host, dom, moduleLoaded, Device, rafVars, loadVars, nn, nnFrame, ambientFrame, pointer, frames,
                 uiVars>>

\* the debounce timer fires: this.resize(); this.spawnNodes()
ResizeTimerFire ==
  /\ resizeTimer
  /\ resizeTimer' = FALSE
  /\ nn' = [nn EXCEPT !.canvas = win, !.nodes = SpawnNodes(Device, win, win, rng)]
  /\ rng' = Drawn(rng, 7 * SpawnCount(Device, win))
  /\ UNCHANGED <<hostVars, rafVars, loadVars, nnFrame, matrix, ambient, ambientFrame, pointer, frames, resizes,
                 uiVars>>

----------------------------------------------------------------------------
(* GLITCH TEXT *)

\* two of the characters of this.chars
GlitchChars == {"A", "#"}

\* the text of .glitch-name on the page
PageName == <<"M", " ", "A">>

GlitchNames == {<<>>, <<"M">>, PageName, <<"A", "B", " ", "#">>}

NoGlitch ==
  [ active |-> FALSE, original |-> <<>>, text |-> <<>>, glitching |-> FALSE, iter |-> 0,
    running |-> 0, count |-> 0 ]

\* constructor: nothing with reduced motion or without the element; iter is
\* kept in hundredths
GlitchConstruct(dev, d, name) ==
  IF dev.reduced \/ "glitch-name" \notin d THEN NoGlitch
  ELSE [NoGlitch EXCEPT !.active = TRUE, !.original = name, !.text = name]

\* the texts one step of the scramble can write: characters before iter and
\* spaces are kept, every other one is drawn from this.chars
Scrambled(g) ==
  { [i \in 1..Len(g.original) |->
       IF (i - 1) * 100 < g.iter \/ g.original[i] = " " THEN g.original[i] ELSE f[i]] :
    f \in [1..Len(g.original) -> GlitchChars] }

\* triggerGlitch(), called by the constructor's interval
TriggerGlitchUnguarded ==
  /\ glitch.active
  /\ glitch.count < MaxGlitches
  /\ glitch' = [glitch EXCEPT !.glitching = TRUE, !.iter = 0, !.running = @ + 1, !.count = @ + 1]
  /\ UNCHANGED <<hostVars, rafVars, fieldVars, loadVars, typer, menu>>

TriggerGlitch ==
  /\ glitch.active
  /\ glitch.count < MaxGlitches
  /\ glitch' = IF glitch.glitching THEN glitch
               ELSE [glitch EXCEPT !.glitching = TRUE, !.iter = 0, !.running = @ + 1,
                                   !.count = @ + 1]
  /\ UNCHANGED <<hostVars, rafVars, fieldVars, loadVars, typer, menu>>

\* one run of the 28ms interval callback of a scramble
ScrambleStep ==
  /\ glitch.running > 0
  /\ \E t \in Scrambled(glitch) :
       glitch' = IF glitch.iter >= 100 * Len(glitch.original)
                 THEN [glitch EXCEPT !.text = glitch.original, !.glitching = FALSE,
                                     !.running = @ - 1, !.iter = @ + 45]
                 ELSE [glitch EXCEPT !.text = t, !.iter = @ + 45]
  /\ UNCHANGED <<hostVars, rafVars, fieldVars, loadVars, typer, menu>>

----------------------------------------------------------------------------
(* TYPEWRITER *)

\* the lengths of this.texts (UTF-16 units)
TypeTextLengths == <<21, 22, 26, 26, 26>>

NoTyper ==
  [ active |-> FALSE, idx |-> 0, c |-> 0, del |-> FALSE, shown |-> [idx |-> 0, len |-> 0],
    full |-> FALSE ]

\* length of cur.substring(0, n)
Substring(len, n) == Min(Max(n, 0), len)

\* type(): full records that the current text was shown whole since idx changed
TypeStepEarly(t) ==
  LET cur == TypeTextLengths[t.idx + 1]
      c1 == IF t.del THEN t.c - 1 ELSE t.c + 1
      u == [t EXCEPT !.shown = [idx |-> t.idx, len |-> Substring(cur, t.c)], !.c = c1,
                     !.full = t.full \/ Substring(cur, t.c) = cur]
  IN IF ~t.del /\ c1 = cur THEN [u EXCEPT !.del = TRUE]
     ELSE IF t.del /\ c1 = 0
     THEN [u EXCEPT !.del = FALSE, !.idx = (t.idx + 1) % Len(TypeTextLengths), !.full = FALSE]
     ELSE u

TypeStep(t) ==
  LET cur == TypeTextLengths[t.idx + 1]
      c1 == IF t.del THEN t.c - 1 ELSE t.c + 1
      u == [t EXCEPT !.shown = [idx |-> t.idx, len |-> Substring(cur, t.c)], !.c = c1,
                     !.full = t.full \/ Substring(cur, t.c) = cur]
  IN IF ~t.del /\ c1 = cur + 1 THEN [u EXCEPT !.del = TRUE]
     ELSE IF t.del /\ c1 = 0
     THEN [u EXCEPT !.del = FALSE, !.idx = (t.idx + 1) % Len(TypeTextLengths), !.full = FALSE]
     ELSE u

\* constructor: nothing without #heroRole, else the first type()
TypeWriterConstruct(d) ==
  IF "heroRole" \notin d THEN NoTyper ELSE TypeStep([NoTyper EXCEPT !.active = TRUE])

RECURSIVE TypeSteps(_, _)
TypeSteps(t, k) == IF k = 0 \/ ~t.active THEN t ELSE TypeSteps(TypeStep(t), k - 1)

\* the typewriter ms milliseconds after its construction (85ms per typed
\* character, for the first text)
TypedBy(d, ms) == TypeSteps(TypeWriterConstruct(d), ms \div 85)

\* the timer of type() fires
Type ==
  /\ typer.active
  /\ typer' = TypeStep(typer)
  /\ UNCHANGED <<hostVars, rafVars, fieldVars, loadVars, glitch, menu>>

----------------------------------------------------------------------------
(* NAVBAR menu *)

MenuClosed == [active |-> FALSE, open |-> FALSE, overflow |-> ""]

\* Navbar's click listener on the toggle; without #navMenu it throws after
\* the first statement
NavToggleHandlerNoOverflow(m, d) ==
  IF "navMenu" \in d
  THEN [active |-> ~m.active, open |-> ~m.open, overflow |-> m.overflow]
  ELSE [m EXCEPT !.active = ~m.active]

NavToggleHandler(m, d) ==
  IF "navMenu" \in d
  THEN [active |-> ~m.active, open |-> ~m.open, overflow |-> IF ~m.open THEN "hidden" ELSE ""]
  ELSE [m EXCEPT !.active = ~m.active]

\* the click listener of part_001 on the toggle
MainToggleHandler(m, d) ==
  IF "navMenu" \in d
  THEN [m EXCEPT !.active = ~m.active, !.open = ~m.open]
  ELSE [m EXCEPT !.active = ~m.active]

----------------------------------------------------------------------------
(* INIT (staged start-up) and the page wiring that can fail *)

\* the anchors the drivers look up
AllAnchors ==
  { "navbar", "navToggle", "navMenu", "heroRole", "backToTop", "cursorGlow",
    "matrix-canvas", "neural-canvas", "glitch-name", "scanlines", "particleCanvas" }

ImmediateDrivers ==
  <<"Navbar", "TypeWriter", "HackerTerminal", "BackToTop", "ProjectFilter", "CursorGlow">>

DeferredDrivers == <<"MatrixRain", "NeuralNetwork", "GlitchText">>

IdleDrivers ==
  <<"ScrollAnimator", "Counter", "SkillBars", "CardTilt", "AboutTilt", "GithubGraph",
    "ScanlineEffect">>

\* fn => setTimeout(fn, 500), the stand-in for requestIdleCallback
IdleFallbackDelay == 500

Err(site, cause) == [site |-> site, cause |-> cause]

\* the three text and menu widgets before anything ran
UiIdle ==
  /\ glitch = NoGlitch
  /\ typer = NoTyper
  /\ menu = MenuClosed

\* the widgets on a loaded page that nobody clicked yet
UiConstructed(name) ==
  /\ glitch = GlitchConstruct(Device, dom, name)
  /\ typer = TypedBy(dom, clock)
  /\ menu = MenuClosed

LoadIdle ==
  /\ clock = 0
  /\ domReady = FALSE
  /\ timers = {}
  /\ idleRequested = FALSE
  /\ constructed = <<>>
  /\ intervals = {}
  /\ hidden = {}
  /\ errors = {}
  /\ mainScript = [state |-> "pending", effects |-> {}, early |-> FALSE]
  /\ navTicking = FALSE
  /\ navFrame = FALSE

\* the DOMContentLoaded handler: the immediate drivers, then the two later
\* phases are scheduled
DOMContentLoaded ==
  /\ moduleLoaded
  /\ ~domReady
  /\ domReady' = TRUE
  /\ constructed' = constructed \o ImmediateDrivers
  /\ timers' = timers \cup {[id |-> "deferred", due |-> clock + DeferDelay]}
                 \cup (IF host.hasRIC THEN {}
                       ELSE {[id |-> "idle", due |-> clock + IdleFallbackDelay]})
  /\ idleRequested' = host.hasRIC
  /\ typer' = TypeWriterConstruct(dom)
  /\ UNCHANGED <<hostVars, rafVars, fieldVars, clock, intervals, hidden, errors, mainScript,
                 navTicking, navFrame, glitch, menu>>

\* time passes
AdvanceTime(d) ==
  /\ clock + d <= MaxClock
  /\ clock' = clock + d
  /\ UNCHANGED <<hostVars, rafVars, fieldVars, domReady, timers, idleRequested, constructed,
                 intervals, hidden, errors, mainScript, navTicking, navFrame, uiVars>>

\* the deferred phase: new MatrixRain(); new NeuralNetwork(); new GlitchText()
DeferredPhase ==
  /\ constructed' = constructed \o DeferredDrivers
  /\ matrix' = MatrixConstruct(Device, dom, win, rng)
  /\ nn' = NNConstruct(Device, dom, win, Drawn(rng, matrix'.cols))
  /\ rng' = Drawn(rng, matrix'.cols + 7 * Len(nn'.nodes))
  /\ rafQueue' = rafQueue \o MatrixRainSchedules(Device, dom) \o NeuralNetworkSchedules(Device, dom)
  /\ hidden' = IF Device.isLow /\ "neural-canvas" \in dom
               THEN hidden \cup {"neural-canvas"} ELSE hidden
  /\ intervals' = IF ~Device.reduced /\ "glitch-name" \in dom
                  THEN intervals \cup {"GlitchText"} ELSE intervals
  /\ glitch' = GlitchConstruct(Device, dom, PageName)
  /\ UNCHANGED <<errors>>

\* the idle phase: the drivers that observe intersections come first, so a
\* host without IntersectionObserver ends the callback in ScrollAnimator
IdlePhase ==
  /\ IF host.hasIO
     THEN /\ constructed' = constructed \o IdleDrivers
          /\ intervals' = IF ~Device.isLow /\ "scanlines" \in dom
                          THEN intervals \cup {"ScanlineEffect"} ELSE intervals
          /\ UNCHANGED errors
     ELSE /\ errors' = errors \cup {Err("3d-portfolio.js:345", "feature")}
          /\ UNCHANGED <<constructed, intervals>>
  /\ UNCHANGED <<matrix, nn, rng, rafQueue, hidden, glitch>>

TimerDueAnyOrder(t) == t.due <= MaxClock

\* the host runs a timer once it is due; of two due timers the earlier first
TimerDue(t) ==
  /\ t.due <= clock
  /\ \A u \in timers : u.due >= t.due

TimerFire(t) ==
  /\ t \in timers
  /\ TimerDue(t)
  /\ timers' = timers \ {t}
  /\ IF t.id = "deferred" THEN DeferredPhase ELSE IdlePhase
  /\ UNCHANGED <<hostVars, now, prevNow, ticks, tickLog, nnFrame, resizeTimer, ambient,
                 ambientFrame, pointer, frames, resizes, clock, domReady, idleRequested,
                 mainScript, navTicking, navFrame, typer, menu>>

\* the host finds idle time and runs the requestIdleCallback callback
IdleCallback ==
  /\ idleRequested
  /\ idleRequested' = FALSE
  /\ IdlePhase
  /\ UNCHANGED <<hostVars, now, prevNow, ticks, tickLog, nnFrame, resizeTimer, ambient,
                 ambientFrame, pointer, frames, resizes, clock, domReady, timers,
                 mainScript, navTicking, navFrame, typer, menu>>

\* a scroll event: Navbar's listener queues one animation-frame callback at a
\* time; the listener of part_001 (if it was registered) runs synchronously
\* (BackToTop's listener only toggles a class of a button it checked for)
Scroll ==
  /\ domReady \/ "navScroll" \in mainScript.effects
  /\ IF domReady /\ ~navTicking
     THEN navTicking' = TRUE /\ navFrame' = TRUE
     ELSE UNCHANGED <<navTicking, navFrame>>
  /\ errors' = errors \cup
       (IF "navScroll" \in mainScript.effects
        THEN (IF "navbar" \notin dom THEN {Err("part_001:157", "anchor")}
              ELSE IF "backToTop" \notin dom THEN {Err("part_001:168", "anchor")}
              ELSE {})
        ELSE {})
  /\ UNCHANGED <<hostVars, rafVars, fieldVars, clock, domReady, timers, idleRequested,
                 constructed, intervals, hidden, mainScript, uiVars>>

\* Navbar's animation-frame callback: this.nav.classList..., then ticking = false
NavFrame ==
  /\ navFrame
  /\ navFrame' = FALSE
  /\ IF "navbar" \in dom
     THEN navTicking' = FALSE /\ UNCHANGED errors
     ELSE errors' = errors \cup {Err("3d-portfolio.js:455", "anchor")} /\ UNCHANGED navTicking
  /\ UNCHANGED <<hostVars, rafVars, fieldVars, clock, domReady, timers, idleRequested,
                 constructed, intervals, hidden, mainScript, uiVars>>

\* a click on the menu toggle: Navbar's listener and the one of part_001, in
\* the order of their registration; the document listener then finds the
\* target inside the toggle and does nothing
ToggleClick ==
  /\ "navToggle" \in dom
  /\ domReady \/ "navToggle" \in mainScript.effects
  /\ LET hasMain == "navToggle" \in mainScript.effects
         m1 == IF hasMain /\ mainScript.early THEN MainToggleHandler(menu, dom) ELSE menu
         m2 == IF domReady THEN NavToggleHandler(m1, dom) ELSE m1
     IN menu' = IF hasMain /\ ~mainScript.early THEN MainToggleHandler(m2, dom) ELSE m2
  /\ errors' = errors \cup
       (IF domReady /\ "navMenu" \notin dom THEN {Err("3d-portfolio.js:465", "anchor")} ELSE {})
       \cup (IF "navToggle" \in mainScript.effects /\ "navMenu" \notin dom
             THEN {Err("part_001:175", "anchor")} ELSE {})
  /\ UNCHANGED <<hostVars, rafVars, fieldVars, clock, domReady, timers, idleRequested,
                 constructed, intervals, hidden, mainScript, navTicking, navFrame, glitch, typer>>

\* a click on a .nav-link (inside the menu): Navbar's listener closes the
\* menu, and so does the one of part_001
LinkClick ==
  /\ domReady \/ "navToggle" \in mainScript.effects
  /\ menu' = IF domReady THEN MenuClosed ELSE [menu EXCEPT !.active = FALSE, !.open = FALSE]
  /\ errors' = errors \cup
       (IF "navToggle" \in mainScript.effects /\ "navMenu" \notin dom
        THEN {Err("part_001:181", "anchor")} ELSE {})
  /\ UNCHANGED <<hostVars, rafVars, fieldVars, clock, domReady, timers, idleRequested,
                 constructed, intervals, hidden, mainScript, navTicking, navFrame, glitch, typer>>

\* a click outside the menu and the toggle: the document listener of Navbar
DocumentClick ==
  /\ domReady
  /\ menu' = IF "navMenu" \in dom /\ menu.open THEN MenuClosed ELSE menu
  /\ UNCHANGED <<hostVars, rafVars, fieldVars, loadVars, glitch, typer>>

\* the effects part_001 starts, in the order of the script, each with the
\* anchor it dereferences without a check and the line that does so
MainSteps ==
  << [effect |-> "particles", needs |-> "particleCanvas", site |-> "part_001:11"],
     [effect |-> "cursorGlow", needs |-> "", site |-> ""],
     [effect |-> "typing", needs |-> "heroRole", site |-> "part_001:128"],
     [effect |-> "navScroll", needs |-> "", site |-> ""],
     [effect |-> "navToggle", needs |-> "navToggle", site |-> "part_001:173"],
     [effect |-> "smoothScroll", needs |-> "", site |-> ""],
     [effect |-> "reveal", needs |-> "IntersectionObserver", site |-> "part_001:230"],
     [effect |-> "counters", needs |-> "", site |-> ""],
     [effect |-> "skillBars", needs |-> "", site |-> ""],
     [effect |-> "tilt", needs |-> "", site |-> ""],
     [effect |-> "magnetic", needs |-> "", site |-> ""] >>

MainStepFails(st) ==
  IF st.needs = "IntersectionObserver" THEN ~host.hasIO
  ELSE st.needs # "" /\ st.needs \notin dom

\* the steps of part_001 that run: all of them, or those before the first throw
MainPrefix ==
  IF \E k \in 1..Len(MainSteps) : MainStepFails(MainSteps[k])
  THEN (CHOOSE k \in 1..Len(MainSteps) :
          /\ MainStepFails(MainSteps[k])
          /\ \A j \in 1..(k - 1) : ~MainStepFails(MainSteps[j])) - 1
  ELSE Len(MainSteps)

\* part_001 is evaluated (an IIFE): an exception ends the script
MainScriptLoad ==
  /\ mainScript.state = "pending"
  /\ LET done == MainPrefix
         failed == done < Len(MainSteps)
     IN /\ mainScript' = [ state |-> IF failed THEN "aborted" ELSE "done",
                           effects |-> {MainSteps[k].effect : k \in 1..done},
                           early |-> ~domReady ]
        /\ errors' = IF failed
                     THEN errors \cup
                          {Err(MainSteps[done + 1].site,
                               IF MainSteps[done + 1].needs = "IntersectionObserver"
                               THEN "feature" ELSE "anchor")}
                     ELSE errors
        /\ IF done >= 1
           THEN /\ ambient' = InitParticles(win, rng)
                /\ rng' = Drawn(rng, 6 * Len(ambient'.particles))
           ELSE UNCHANGED <<ambient, rng>>
  /\ UNCHANGED <<hostVars, rafVars, nn, nnFrame, resizeTimer, matrix, ambientFrame, pointer,
                 frames, resizes, clock, domReady, timers, idleRequested, constructed,
                 intervals, hidden, navTicking, navFrame, uiVars>>

----------------------------------------------------------------------------
(* Specifications *)

FieldIdle ==
  /\ nn = NoNN
  /\ nnFrame = NoFrame
  /\ resizeTimer = FALSE
  /\ matrix = NoMatrix
  /\ ambient = [canvas |-> [w |-> 0, h |-> 0], particles |-> <<>>]
  /\ ambientFrame = NoAmbientFrame
  /\ pointer = "none"
  /\ rng = [seed |-> 0, n |-> 0]
  /\ frames = 0
  /\ resizes = 0

\* the drivers as their constructors leave them: part_001 runs when the
\* script loads, MatrixRain and NeuralNetwork in the deferred phase
FieldConstructed(seed) ==
  LET r0 == [seed |-> seed, n |-> 0]
      r1 == Drawn(r0, 6 * Len(InitParticles(win, r0).particles))
      r2 == Drawn(r1, MatrixConstruct(Device, dom, win, r1).cols)
  IN
  /\ ambient = InitParticles(win, r0)
  /\ matrix = MatrixConstruct(Device, dom, win, r1)
  /\ nn = NNConstruct(Device, dom, win, r2)
  /\ rng = Drawn(r2, 7 * Len(nn.nodes))
  /\ nnFrame = NoFrame
  /\ resizeTimer = FALSE
  /\ ambientFrame = NoAmbientFrame
  /\ pointer = "none"
  /\ frames = 0
  /\ resizes = 0

\* the drivers on a page without part_001
ModuleConstructed ==
  LET r0 == [seed |-> 0, n |-> 0]
      r1 == Drawn(r0, MatrixConstruct(Device, dom, win, r0).cols)
  IN
  /\ ambient = [canvas |-> [w |-> 0, h |-> 0], particles |-> <<>>]
  /\ matrix = MatrixConstruct(Device, dom, win, r0)
  /\ nn = NNConstruct(Device, dom, win, r1)
  /\ rng = Drawn(r1, 7 * Len(nn.nodes))
  /\ nnFrame = NoFrame
  /\ resizeTimer = FALSE
  /\ ambientFrame = NoAmbientFrame
  /\ pointer = "none"
  /\ frames = 0
  /\ resizes = 0

RafIdle ==
  /\ now = 0
  /\ prevNow = 0
  /\ ticks = 0
  /\ rafQueue = <<>>
  /\ tickLog = <<>>

\* the start-up of 3d-portfolio.js once its three phases have run on a page
\* with every anchor
ModuleLoadComplete ==
  /\ clock = MaxClock
  /\ domReady = TRUE
  /\ timers = {}
  /\ idleRequested = FALSE
  /\ constructed = ImmediateDrivers \o DeferredDrivers \o IdleDrivers
  /\ intervals = (IF Device.reduced THEN {} ELSE {"GlitchText"})
                   \cup (IF Device.isLow THEN {} ELSE {"ScanlineEffect"})
  /\ hidden = (IF Device.isLow THEN {"neural-canvas"} ELSE {})
  /\ errors = {}
  /\ navTicking = FALSE
  /\ navFrame = FALSE

\* the same on a page that loads part_001 as well, before DOMContentLoaded
LoadComplete ==
  /\ ModuleLoadComplete
  /\ mainScript = [ state |-> "done", effects |-> {MainSteps[k].effect : k \in 1..Len(MainSteps)},
                    early |-> TRUE ]

\* the throttled loops as the constructors of the deferred phase leave them
RafConstructed ==
  /\ now \in {DeferDelay * TimeScale, (DeferDelay + 5) * TimeScale}
  /\ prevNow = now
  /\ ticks = 0
  /\ rafQueue = MatrixRainSchedules(Device, dom) \o NeuralNetworkSchedules(Device, dom)
  /\ tickLog = <<>>

InitDevice ==
  /\ host \in Hosts
  /\ win \in Viewports
  /\ dom = {}
  /\ moduleLoaded = FALSE
  /\ Device = DeviceUnset
  /\ RafIdle
  /\ FieldIdle
  /\ LoadIdle
  /\ UiIdle

NextDevice == ModuleLoad

SpecDevice == InitDevice /\ [][NextDevice]_vars

\* state once the deferred phase has constructed the canvas drivers
InitRAF ==
  /\ host \in TierHosts
  /\ win \in Viewports
  /\ dom = AllAnchors
  /\ moduleLoaded = TRUE
  /\ Device = DetectDevice(host, win)
  /\ RafConstructed
  /\ FieldConstructed(0)
  /\ LoadComplete
  /\ UiConstructed(PageName)

NextRAF == \E gap \in TickGaps : Tick(gap)

SpecRAF == InitRAF /\ [][NextRAF]_vars

\* state once both scripts have constructed their particle fields
InitField ==
  /\ host \in TierHosts
  /\ win \in Viewports
  /\ dom = AllAnchors
  /\ moduleLoaded = TRUE
  /\ Device = DetectDevice(host, win)
  /\ RafConstructed
  /\ now = DeferDelay * TimeScale
  /\ \E seed \in Seeds : FieldConstructed(seed)
  /\ LoadComplete
  /\ UiConstructed(PageName)

NextField ==
  \/ NNDraw
  \/ AnimateParticles
  \/ \E p \in PointerPositions : MouseMove(p)
  \/ MouseLeave
  \/ \E p \in PointerPositions : TouchMove(p)
  \/ TouchEnd
  \/ \E w \in ResizeTargets : Resize(w)
  \/ ResizeTimerFire

\* hosts of the start-up: 8 cores and 8GB (high tier, or low tier by reduced
\* motion), with and without requestIdleCallback and IntersectionObserver
LoadHosts ==
  { h \in Hosts : h.hardwareConcurrency = 8 /\ h.deviceMemory = 8 * MemUnit }

LoadViewports == {[w |-> 1024, h |-> 768]}

\* the page has every anchor, or lacks one of them
LoadPages == {AllAnchors} \cup {AllAnchors \ {a} : a \in AllAnchors}

\* 3d-portfolio.js has been evaluated; the page may lack some anchors
InitLoad ==
  /\ host \in LoadHosts
  /\ win \in LoadViewports
  /\ dom \in LoadPages
  /\ moduleLoaded = TRUE
  /\ Device = DetectDevice(host, win)
  /\ RafIdle
  /\ FieldIdle
  /\ LoadIdle
  /\ UiIdle

LoadTimeSteps == {200}

NextLoad ==
  \/ DOMContentLoaded
  \/ MainScriptLoad
  \/ \E d \in LoadTimeSteps : AdvanceTime(d)
  \/ \E t \in timers : TimerFire(t)
  \/ IdleCallback
  \/ Scroll
  \/ NavFrame
  \/ ToggleClick

SpecLoad == InitLoad /\ [][NextLoad]_vars

SpecField == InitField /\ [][NextField]_vars

\* a wide, low window, which holds a handful of nodes
StripViewports == {[w |-> 800, h |-> 60]}

StripPositions == {[x |-> 95, y |-> 20], [x |-> 110, y |-> 20], [x |-> 405, y |-> 35]}

\* the neural network of a mid or high tier device in such a window
InitRepel ==
  /\ host \in {h \in TierHosts : h.hardwareConcurrency > 2}
  /\ win \in StripViewports
  /\ dom = AllAnchors
  /\ moduleLoaded = TRUE
  /\ Device = DetectDevice(host, win)
  /\ RafConstructed
  /\ now = DeferDelay * TimeScale
  /\ \E seed \in Seeds : FieldConstructed(seed)
  /\ LoadComplete
  /\ UiConstructed(PageName)

NextRepel ==
  \/ NNDrawWithin(MaxRepelFrames)
  \/ \E p \in StripPositions : MouseMove(p)
  \/ MouseLeave

SpecRepel == InitRepel /\ [][NextRepel]_vars

\* hosts of the widgets: 2, 4 or 8 cores, 8GB, with IntersectionObserver
UiHosts ==
  { h \in Hosts : h.hardwareConcurrency \in {2, 4, 8} /\ h.deviceMemory = 8 * MemUnit /\ h.hasIO }

\* a page with every anchor that loaded 3d-portfolio.js alone
PageLoaded ==
  /\ host \in UiHosts
  /\ dom = AllAnchors
  /\ moduleLoaded = TRUE
  /\ Device = DetectDevice(host, win)
  /\ RafConstructed
  /\ now = DeferDelay * TimeScale
  /\ ModuleConstructed
  /\ ModuleLoadComplete
  /\ mainScript = [state |-> "pending", effects |-> {}, early |-> FALSE]

InitGlitch ==
  /\ win \in StripViewports
  /\ PageLoaded
  /\ \E name \in GlitchNames : UiConstructed(name)

NextGlitch == TriggerGlitch \/ ScrambleStep

SpecGlitch == InitGlitch /\ [][NextGlitch]_vars

\* the 28ms interval of a scramble keeps calling back until it is cleared
SpecGlitchLive == SpecGlitch /\ WF_vars(ScrambleStep)

InitType ==
  /\ win \in StripViewports
  /\ PageLoaded
  /\ UiConstructed(PageName)

NextType == Type

SpecType == InitType /\ [][NextType]_vars

\* every type() sets the timer of the next one
SpecTypeLive == SpecType /\ WF_vars(Type)

InitMenu ==
  /\ win \in Viewports
  /\ PageLoaded
  /\ UiConstructed(PageName)

NextMenu ==
  \/ ToggleClick
  \/ LinkClick
  \/ DocumentClick
  \/ Scroll
  \/ NavFrame

SpecMenu == InitMenu /\ [][NextMenu]_vars

\* pointer positions in the column of the node that spawns with vx = 0
ColumnPositions == {[x |-> 500, y |-> 0], [x |-> 500, y |-> 33], [x |-> 500, y |-> 4]}

NextImpulse ==
  \/ NNDrawWithin(MaxRepelFrames)
  \/ \E p \in ColumnPositions : MouseMove(p)
  \/ MouseLeave

SpecImpulse == InitRepel /\ [][NextImpulse]_vars

----------------------------------------------------------------------------
(* C1: once the detector has run, the tier is Low iff reduced-motion or    *)
(* cores <= 2 or memory < 2GB or (mobile and cores <= 4); Mid iff not Low  *)
(* and (cores <= 4 or memory < 4GB or mobile); High otherwise; exactly one *)
(* of isLow, isMid, isHigh is true.  cores and mem are the host's values,  *)
(* defaulting to 2 cores and 1GB; mobile is viewport width < 768.          *)
C1_TierClassification ==
  moduleLoaded =>
    LET low == Device.reduced \/ Device.cores <= 2 \/ Device.mem < 2 * MemUnit
               \/ (Device.mobile /\ Device.cores <= 4)
        mid == ~low /\ (Device.cores <= 4 \/ Device.mem < 4 * MemUnit \/ Device.mobile)
    IN /\ Device.cores = (IF host.hardwareConcurrency = 0 THEN 2 ELSE host.hardwareConcurrency)
       /\ Device.mem = (IF host.deviceMemory = 0 THEN MemUnit ELSE host.deviceMemory)
       /\ Device.mobile = (win.w < 768)
       /\ Device.reduced = host.reducedMotion
       /\ Device.isLow = low
       /\ Device.isMid = mid
       /\ Device.isHigh = (~low /\ ~mid)
       /\ Cardinality({t \in {"isLow", "isMid", "isHigh"} : Device[t]}) = 1

\* a device with exactly 2 cores, plenty of memory, wide viewport: Low by the core rule alone
C1_Witness ==
  /\ moduleLoaded
  /\ Device.cores = 2 /\ Device.mem >= 4 * MemUnit /\ ~Device.mobile /\ ~Device.reduced
  /\ Device.isLow

----------------------------------------------------------------------------
Schedules == {rafQueue[i] : i \in 1..Len(rafQueue)}

Fired(s) == \E i \in 1..Len(tickLog) : tickLog[i] = s.owner

\* C2: two consecutive invocations of fn are at least 1000/targetFPS ms of
\* tick time apart, under any non-decreasing sequence of tick timestamps.
C2_ThrottleNeverExceedsTarget ==
  \A s \in Schedules :
    s.fires >= 2 => (s.last - s.prevFire) * s.fps >= 1000 * TimeScale

\* the 30fps loop on a 60Hz display: a tick was skipped and fn ran twice
C2_Witness ==
  \E s \in Schedules :
    /\ s.fps = 30 /\ s.fires >= 2 /\ ticks > s.fires
    /\ (now - prevNow) * 60 = 1000 * TimeScale

\* C3: when the native tick interval is at least 1000/targetFPS the callback
\* runs on that tick; it also runs on the first tick after registration.
C3_FiresEveryTickWhenTargetAtLeastNative ==
  \A s \in Schedules :
    (ticks >= 1 /\ (ticks = 1 \/ (now - prevNow) * s.fps >= 1000 * TimeScale))
      => Fired(s)

\* the 60fps loop on a 60Hz display ran on each of at least two ticks
C3_Witness ==
  \E s \in Schedules :
    /\ s.fps = 60 /\ ticks >= 2 /\ s.fires = ticks
    /\ (now - prevNow) * 60 = 1000 * TimeScale /\ Fired(s)

----------------------------------------------------------------------------
NodeIds == 1..Len(nn.nodes)

Speed(n) == Hypot(n.vx, n.vy)

\* C4 as stated: after every draw the velocity magnitude hypot(vx, vy) of
\* every node is at most 1.4.
C4_SpeedAtMostCap ==
  \A i \in NodeIds : Speed(nn.nodes[i]) <= SpeedCap

\* C4 as amended: after every draw hypot(vx, vy) is at most 1.4 up to the
\* rounding of the rescale, one unit in the last place of the representation.
C4_SpeedAtMostCapRounded ==
  \A i \in NodeIds : Speed(nn.nodes[i]) <= SpeedCap + 1

\* a draw in which a repelled node exceeded the cap and was scaled back
C4_Witness ==
  \E i \in NodeIds :
    /\ i \in nnFrame.clamped /\ i \in nnFrame.impulses
    /\ Len(nnFrame.pos) = Len(nn.nodes)
    /\ Speed(nn.nodes[i]) >= SpeedCap - 1

\* C5: the node count is min(floor(width * height / density), cap) with
\* density 12000, cap 90 on High and density 28000, cap 40 on Mid: 65 nodes
\* for 1024x768 on High; every regeneration at one viewport size gives the
\* same count.
C5_NodeCountFromArea ==
  (nn.active /\ ~resizeTimer) =>
    LET area == win.w * win.h
        density == IF Device.isHigh THEN 12000 ELSE 28000
        cap == IF Device.isHigh THEN 90 ELSE 40
        count == Len(nn.nodes)
    IN /\ \/ count = cap /\ area >= cap * density
          \/ count < cap /\ count * density <= area /\ area < (count + 1) * density
       /\ (Device.isHigh /\ win = [w |-> 1024, h |-> 768]) => count = 65

\* the nodes were regenerated at 1024x768 after a resize to the same size
C5_Witness ==
  /\ nn.active /\ Device.isHigh /\ ~resizeTimer /\ resizes >= 1
  /\ win = [w |-> 1024, h |-> 768] /\ nn.canvas = win
  /\ Len(nn.nodes) = 65

\* C8: whenever the pointer is away from the page (it left, and no move
\* event arrived since) the tracked pointer position is the sentinel
\* (-9999, -9999), on the mousemove and on the touchmove path.
C8_PointerResetOnLeave ==
  pointer = "none" => nn.mouse = Sentinel

PairsOf(n) == {pr \in (1..n) \X (1..n) : pr[1] < pr[2]}

Range(seq) == {seq[i] : i \in 1..Len(seq)}

Dist(pos, pr) == Hypot(pos[pr[1]].x - pos[pr[2]].x, pos[pr[1]].y - pos[pr[2]].y)

\* C10: in every frame of either particle field the lines rendered are
\* exactly the unordered pairs of items whose distance is strictly below the
\* threshold (100 Mid, 120 High; 150 in the ambient field), each pair once.
C10_LinesExactlyForPairsWithinThreshold ==
  /\ Range(nnFrame.lines) =
       {pr \in PairsOf(Len(nnFrame.pos)) :
          Dist(nnFrame.pos, pr) < (IF Device.isMid THEN 100 ELSE 120) * PosScale}
  /\ Cardinality(Range(nnFrame.lines)) = Len(nnFrame.lines)
  /\ Range(ambientFrame.lines) =
       {pr \in PairsOf(Len(ambientFrame.pos)) : Dist(ambientFrame.pos, pr) < 150 * PosScale}
  /\ Cardinality(Range(ambientFrame.lines)) = Len(ambientFrame.lines)

\* both fields drew a frame with some pairs joined and some pairs left apart
C10_Witness ==
  /\ frames >= 2
  /\ nnFrame.lines # <<>>
  /\ Len(nnFrame.lines) < Cardinality(PairsOf(Len(nnFrame.pos)))
  /\ ambientFrame.lines # <<>>
  /\ Len(ambientFrame.lines) < Cardinality(PairsOf(Len(ambientFrame.pos)))

----------------------------------------------------------------------------
(* Start-up claims *)

MotionCanvas(driver) == IF driver = "MatrixRain" THEN "matrix-canvas" ELSE "neural-canvas"

\* C6: when reduced motion is requested, the constructed motion drivers have
\* registered no throttled loop and no interval, and the canvas of each
\* constructed canvas driver is absent from the page or hidden
C6_ReducedMotionInert ==
  host.reducedMotion =>
    /\ rafQueue = <<>>
    /\ intervals = {}
    /\ \A i \in 1..Len(constructed) :
         constructed[i] \in {"MatrixRain", "NeuralNetwork"} =>
           \/ MotionCanvas(constructed[i]) \notin dom
           \/ MotionCanvas(constructed[i]) \in hidden

PhaseOf(driver) ==
  IF driver \in Range(ImmediateDrivers) THEN 1
  ELSE IF driver \in Range(DeferredDrivers) THEN 2
  ELSE 3

\* C7 as stated: drivers are constructed in the order immediate, deferred,
\* idle in every execution
C7_PhaseOrder ==
  \A i, j \in 1..Len(constructed) :
    i < j => PhaseOf(constructed[i]) <= PhaseOf(constructed[j])

\* C7: every immediate driver is constructed before any driver of a later
\* phase, and when the idle phase is started by the 500ms timer fallback every
\* deferred driver is constructed before any idle driver
C7_PhaseOrderWithTimerFallback ==
  /\ \A i, j \in 1..Len(constructed) :
       i < j /\ PhaseOf(constructed[j]) = 1 => PhaseOf(constructed[i]) = 1
  /\ ~host.hasRIC => C7_PhaseOrder

C7_Witness ==
  /\ ~host.hasRIC
  /\ constructed = ImmediateDrivers \o DeferredDrivers \o IdleDrivers

\* C9: a missing DOM anchor raises no exception, neither when the effects are
\* constructed nor in a later event or frame callback
C9_MissingAnchorIsSilent == \A e \in errors : e.cause # "anchor"

----------------------------------------------------------------------------
(* Pointer repulsion *)

\* ((mouseInf - md) / mouseInf) * 0.7
Force(md, dev) == RoundDiv((MouseInf(dev) - md) * 7 * PosScale, MouseInf(dev) * 10)

\* the impulse of node i in the last frame has magnitude Force(md) and points
\* away from the pointer, up to the rounding of its two components
ImpulseAway(i) ==
  LET mdx == nnFrame.moved[i].x - nnFrame.mouse.x * PosScale
      mdy == nnFrame.moved[i].y - nnFrame.mouse.y * PosScale
      md == MouseDist(nnFrame.moved[i], nnFrame.mouse)
      p == nnFrame.push[i]
  IN /\ Abs(Hypot(p.dx, p.dy) - Force(md, Device)) <= 1
     /\ p.dx * mdx >= 0
     /\ p.dy * mdy >= 0
     /\ Abs(p.dx * mdy - p.dy * mdx) <= md

Untouched(i) == nnFrame.push[i] = [dx |-> 0, dy |-> 0]

\* C11 as stated: in every draw, each node nearer to the pointer than the
\* influence radius gets an impulse of magnitude 0.7 * (radius - distance) /
\* radius away from the pointer, and every other node gets none
C11_ImpulseWithinRadius ==
  \A i \in 1..Len(nnFrame.moved) :
    IF MouseDist(nnFrame.moved[i], nnFrame.mouse) < MouseInf(Device)
    THEN ImpulseAway(i)
    ELSE Untouched(i)

\* C11: in every draw, each node at a distance from the pointer above 0 and
\* below the influence radius gets an impulse of magnitude
\* 0.7 * (radius - distance) / radius away from the pointer; a node at the
\* pointer's own position or at or beyond the radius gets none
C11_ImpulseWithinRadiusOffPointer ==
  \A i \in 1..Len(nnFrame.moved) :
    LET md == MouseDist(nnFrame.moved[i], nnFrame.mouse)
    IN IF md < MouseInf(Device) /\ md > 0
       THEN ImpulseAway(i)
       ELSE Untouched(i)

\* a draw with a node under the pointer, a node pushed away and a node out of reach
C11_Witness ==
  /\ \E i \in 1..Len(nnFrame.moved) : MouseDist(nnFrame.moved[i], nnFrame.mouse) = 0
  /\ \E i \in 1..Len(nnFrame.moved) :
       /\ i \in nnFrame.impulses
       /\ Hypot(nnFrame.push[i].dx, nnFrame.push[i].dy) >= 2
  /\ \E i \in 1..Len(nnFrame.moved) :
       MouseDist(nnFrame.moved[i], nnFrame.mouse) >= MouseInf(Device)

\* C12 as stated: on a mobile viewport no event changes the tracked pointer
\* position and no draw applies a repulsion impulse
C12_NoPointerOnMobile ==
  [][Device.mobile => nn'.mouse = nn.mouse /\ nnFrame'.impulses = {}]_vars

\* C12: on a mobile viewport mouse events never change the tracked pointer
\* position; only a touchmove does
C12_OnlyTouchOnMobile ==
  [][Device.mobile /\ nn'.mouse # nn.mouse => pointer' = "touch"]_vars

\* a mobile device whose field tracks a touch and has repelled a node from
\* it, with a mouse that has moved as well
C12_Witness ==
  /\ Device.mobile
  /\ nn.active
  /\ nn.mouse \in PointerPositions
  /\ nnFrame.impulses # {}
  /\ nnFrame.mouse = nn.mouse

----------------------------------------------------------------------------
(* Boundaries *)

Within(pt, canvas) ==
  /\ 0 <= pt.x /\ pt.x <= canvas.w * PosScale
  /\ 0 <= pt.y /\ pt.y <= canvas.h * PosScale

CrossedX(pt, canvas) == pt.x < 0 \/ pt.x > canvas.w * PosScale

CrossedY(pt, canvas) == pt.y < 0 \/ pt.y > canvas.h * PosScale

\* the nodes of the NeuralNetwork after its last draw: inside the canvas, and
\* reflected where the move took them across an edge
NodesBounded ==
  \A i \in 1..Len(nnFrame.pos) :
    /\ Within(nnFrame.pos[i], nnFrame.canvas)
    /\ CrossedX(nnFrame.moved[i], nnFrame.canvas) => nnFrame.vel[i].vx = -nnFrame.capped[i].vx
    /\ CrossedY(nnFrame.moved[i], nnFrame.canvas) => nnFrame.vel[i].vy = -nnFrame.capped[i].vy

\* the same for the particles of part_001 after their last update
ParticlesBounded ==
  \A i \in 1..Len(ambientFrame.pos) :
    /\ Within(ambientFrame.pos[i], ambientFrame.canvas)
    /\ CrossedX(ambientFrame.pos[i], ambientFrame.canvas)
         => ambientFrame.after[i].speedX = -ambientFrame.before[i].speedX
    /\ CrossedY(ambientFrame.pos[i], ambientFrame.canvas)
         => ambientFrame.after[i].speedY = -ambientFrame.before[i].speedY

\* C13: after every completed draw or update step every item of both
\* particle fields lies within its canvas (0 <= x <= width, 0 <= y <= height),
\* and an item that crossed an edge in that step has that velocity component
\* negated
C13_PositionsWithinCanvas == NodesBounded /\ ParticlesBounded

----------------------------------------------------------------------------
(* Resize *)

\* initParticles(): count
ParticleCount(w) == Min((w.w * w.h) \div 15000, 80)

\* C14: once a resize event has been handled (for the NeuralNetwork: once its
\* debounced handler has run), every driver holds a particle state generated
\* for the new viewport: MatrixRain one drop per column floor(width /
\* fontSize), the NeuralNetwork the node count of the new area, the ambient
\* field the particle count of the new area, each on a canvas of the new size
C14_RegeneratedOnResize ==
  resizes > 0 =>
    /\ matrix.active => matrix.canvas = win /\ Len(matrix.drops) = win.w \div matrix.fontSize
    /\ nn.active /\ ~resizeTimer => nn.canvas = win /\ Len(nn.nodes) = SpawnCount(Device, win)
    /\ ambient.canvas = win /\ Len(ambient.particles) = ParticleCount(win)

----------------------------------------------------------------------------
(* Order of the throttled loops *)

Owners(queue) == [i \in 1..Len(queue) |-> queue[i].owner]

\* C15: on every tick the callbacks that are due run in registration order,
\* MatrixRain.draw before NeuralNetwork.draw, and after every tick each loop
\* is registered exactly once, in that same order
C15_RegistrationOrderKept ==
  /\ Owners(rafQueue) = Owners(MatrixRainSchedules(Device, dom) \o NeuralNetworkSchedules(Device, dom))
  /\ tickLog \in {<<>>, <<"MatrixRain">>, <<"NeuralNetwork">>, <<"MatrixRain", "NeuralNetwork">>}

\* a later tick on which both were due, after a tick on which only one was
C15_Witness ==
  /\ ticks >= 3
  /\ tickLog = <<"MatrixRain", "NeuralNetwork">>
  /\ \E s \in Schedules : s.fires < ticks

----------------------------------------------------------------------------
(* Capability profile *)

\* C16: once the module has been evaluated no event changes any field of the
\* capability profile: no resize, pointer or touch event, timer or frame
C16_DeviceNeverRecomputed == [][moduleLoaded => Device' = Device]_vars

\* a profile computed on a narrow viewport, still mobile after a resize to a
\* wide one and a frame drawn there
C16_Witness ==
  /\ resizes > 0
  /\ win.w >= 768
  /\ Device.mobile
  /\ nn.active /\ nn.canvas = win
  /\ Len(nnFrame.pos) = Len(nn.nodes)

----------------------------------------------------------------------------
(* Widgets *)

\* C17: at most one scramble interval runs at a time, and it runs exactly
\* while glitching is true; a running scramble advances iter by 0.45 per
\* step and ends only once iter has reached the length of the original text,
\* leaving no interval, the original text and glitching false; every
\* scramble that starts ends
C17_OneScrambleThatEnds ==
  /\ [](glitch.running <= 1)
  /\ [](glitch.glitching <=> glitch.running = 1)
  /\ [][glitch.glitching /\ glitch'.glitching /\ glitch' # glitch
          => glitch'.iter = glitch.iter + 45 /\ glitch'.running = glitch.running]_vars
  /\ [][glitch.glitching /\ ~glitch'.glitching
          => /\ glitch.iter >= 100 * Len(glitch.original)
             /\ glitch'.running = 0
             /\ glitch'.text = glitch.original]_vars
  /\ glitch.glitching ~> ~glitch.glitching

\* a second scramble of a text of three characters or more has run to its end
C17_Witness ==
  /\ glitch.count = 2
  /\ ~glitch.glitching
  /\ glitch.iter > 100 * Len(glitch.original)
  /\ Len(glitch.original) >= 3
  /\ glitch.text = glitch.original

TextIds == 0..(Len(TypeTextLengths) - 1)

\* C18: after any number of type() steps 0 <= c <= length(texts[idx]) + 1 and
\* idx is a valid index; deletion starts only after the text was shown whole;
\* idx changes only to the next index (modulo the number of texts) and only
\* in the step in which deletion brings c to 0; every text is shown whole
\* again and again
C18_TypeWriterCycle ==
  /\ [](typer.idx \in TextIds /\ 0 <= typer.c /\ typer.c <= TypeTextLengths[typer.idx + 1] + 1)
  /\ [](typer.del => typer.full)
  /\ [][typer'.idx # typer.idx
          => /\ typer'.idx = (typer.idx + 1) % Len(TypeTextLengths)
             /\ typer.del
             /\ typer'.c = 0]_vars
  /\ \A k \in TextIds :
       []<>(typer.active => typer.shown = [idx |-> k, len |-> TypeTextLengths[k + 1]])

\* the typewriter is back at the first text after the last one was deleted
C18_Witness ==
  /\ typer.active
  /\ typer.idx = 0 /\ typer.c = 0 /\ ~typer.del
  /\ typer.shown = [idx |-> Len(TypeTextLengths) - 1, len |-> 1]

\* C19: after any sequence of clicks on the toggle, on a nav link and
\* elsewhere in the document, the toggle has class 'active' iff the menu has
\* class 'open' iff the body overflow is 'hidden'
C19_MenuFactsEquivalent ==
  /\ menu.active <=> menu.open
  /\ menu.open <=> menu.overflow = "hidden"

\* the menu is open
C19_Witness ==
  /\ menu.active /\ menu.open /\ menu.overflow = "hidden"
  /\ domReady /\ mainScript.state = "pending"

====
